---- MODULE Spec2Model ----
(***************************************************************************)
(* Room/session lifecycle and message relay of the chess signaling server  *)
(* (src/server.js, lines 1-238: the variant with per-room expiry timers).  *)
(*                                                                         *)
(* Every event handler of the server runs to completion on Node's single   *)
(* thread, so each handler is one action.  The transport (the ws library   *)
(* and the remote peers) is the environment: it opens connections, turns a *)
(* socket's readyState from OPEN to CLOSING, emits 'message' and 'close'.  *)
(***************************************************************************)
EXTENDS Integers, Sequences, FiniteSets, TLC

\* ---------------------------------------------------------------- bounds
\* Number of connections the environment opens in one behaviour.
MaxConns == 3
\* Connections in use at one time when connections come and go for ever.
MaxLive == 2

\* ------------------------------------------------------ program constants
\* TIMEOUTS (server.js:21-25), in hours.  ONE_PLAYER (2 h) and TWO_PLAYERS
\* (5 h) are exact; EMPTY (5 min) is rounded up to one tick of the clock.
TIMEOUT_EMPTY == 1
TIMEOUT_ONE_PLAYER == 2
TIMEOUT_TWO_PLAYERS == 5

TIMEOUTS ==
  [EMPTY |-> TIMEOUT_EMPTY, ONE_PLAYER |-> TIMEOUT_ONE_PLAYER,
   TWO_PLAYERS |-> TIMEOUT_TWO_PLAYERS]

\* ------------------------------------------------------------ input sets
\* null: a query parameter that is absent (searchParams.get returns null).
NoId == "null"
RoomIds == {"r1", "r2"}
PlayerIds == {"p1", "p2"}
\* Raw inbound payloads, one per behaviour of the message handler:
\*   "move"    {"type":"move",...}    "chat"    {"type":"chat",...}
\*   "nulljs"  null: JSON.parse succeeds, the read of data.type throws
\*   "garbage" not JSON: JSON.parse throws
Payloads == {"move", "chat", "nulljs", "garbage"}

Conns == 1..MaxConns
NoConn == 0
NoRoom == 0
NoHandle == 0

VARIABLES
  nconn,         \* connections opened so far; the next one is nconn + 1
  sockets,       \* per connection: readyState and, once the join registered
                 \* its handlers, what their closure captured (playerId is
                 \* captured for the log lines only and is not kept)
  rooms,         \* Map rooms: room id -> room object (NoRoom: absent)
  roomObjs,      \* the room objects, named by the connection that made them
  roomTimeouts,  \* Map roomTimeouts: room id -> timer handle
  pending,       \* armed timers of the event loop, with the time left
  sent,          \* what the last handler sent: <<[to, msg], ...>>
  occBefore,     \* history: occupancy of its room when a seated socket, whose
                 \* close is not handled yet, was last OPEN (-1: none)
  retune         \* history: per room id, how the deadline of the room's
                 \* timer stands to t + TIMEOUT_TWO_PLAYERS, t being when a
                 \* second peer last joined the registered room.  "armed":
                 \* the timer is the one that join armed, due at that time;
                 \* "early": re-armed since and due before it; "none": no
                 \* such join, or re-armed and not known to be due before

vars ==
  <<nconn, sockets, rooms, roomObjs, roomTimeouts, pending, sent, occBefore,
    retune>>

\* ------------------------------------------------------------- messages
\* JSON.stringify({type, ...}) of the server's own events, and a relayed
\* payload, which is the sender's raw message object itself.
Event(type, roomId, playerId, isHost, message) ==
  [kind |-> "event", type |-> type, roomId |-> roomId, playerId |-> playerId,
   isHost |-> isHost, message |-> message, raw |-> NoId]

Relayed(payload) ==
  [kind |-> "relay", type |-> NoId, roomId |-> NoId, playerId |-> NoId,
   isHost |-> FALSE, message |-> NoId, raw |-> payload]

ErrorEvent(message) == Event("error", NoId, NoId, FALSE, message)

\* JSON.parse(message): does it return (TRUE) or throw (FALSE)?
Parses(p) == p # "garbage"

\* The read of data.type in the handler's first statement, after JSON.parse
\* returned: "throws" on null (TypeError), else the type tag.
DataType(p) == IF p = "nulljs" THEN "throws" ELSE p

\* ws.send(m) on socket c: transmitted only while the socket is OPEN.
Send(sk, c, m) ==
  IF sk[c].readyState = "OPEN" THEN <<[to |-> c, msg |-> m]>> ELSE <<>>

\* ---------------------------------------------------------------- rooms
IsOpen(sk, c) == c # NoConn /\ sk[c].readyState = "OPEN"

\* updateRoomTimeout's playerCount: seats whose socket is OPEN.
playerCount(sk, room) ==
  (IF IsOpen(sk, room.host) THEN 1 ELSE 0)
  + (IF IsOpen(sk, room.guest) THEN 1 ELSE 0)

\* Mutant: two occupants get the one-player delay.
TierOf_NeverTwo(n) == IF n = 0 THEN "EMPTY" ELSE "ONE_PLAYER"

TierOf(n) ==
  IF n = 0 THEN "EMPTY" ELSE IF n = 1 THEN "ONE_PLAYER" ELSE "TWO_PLAYERS"

\* The seat a role maps to, and the tests and updates of the handlers.
SeatOf(room, isHost) == IF isHost THEN room.host ELSE room.guest

\* Mutant: the occupancy test looks at the seat of the other role.
SeatTaken_OtherSeat(sk, room, isHost) == IsOpen(sk, SeatOf(room, ~isHost))

SeatTaken(sk, room, isHost) == IsOpen(sk, SeatOf(room, isHost))

TakeSeat(room, isHost, c) ==
  IF isHost THEN [room EXCEPT !.host = c] ELSE [room EXCEPT !.guest = c]

\* Mutant: the close handler leaves the seats as they are.
ClearSeat_Keeps(room, isHost) == room

\* Mutant: the close handler clears the seat of the other role.
ClearSeat_WrongRole(room, isHost) ==
  IF isHost THEN [room EXCEPT !.guest = NoConn]
  ELSE [room EXCEPT !.host = NoConn]

ClearSeat(room, isHost) ==
  IF isHost THEN [room EXCEPT !.host = NoConn]
  ELSE [room EXCEPT !.guest = NoConn]

RelayTarget(room, isHost) == IF isHost THEN room.guest ELSE room.host

\* Mutant: a guest may create the room, as a host does.
RoomNotFound_GuestCreates(rm, roomId, isHost) == FALSE

\* The join is refused because the room is absent and the peer is a guest.
RoomNotFound(rm, roomId, isHost) == rm[roomId] = NoRoom /\ ~isHost

\* Mutant: the host is notified without the test of its readyState.
PlayerJoined_NoOpenTest(sk, room, isHost, playerId) ==
  IF ~isHost /\ room.host # NoConn
  THEN <<[to |-> room.host,
          msg |-> Event("player-joined", NoId, playerId, FALSE, NoId)]>>
  ELSE <<>>

\* "Notify host that guest joined": the sends of the guest branch.
PlayerJoined(sk, room, isHost, playerId) ==
  IF ~isHost /\ IsOpen(sk, room.host)
  THEN <<[to |-> room.host,
          msg |-> Event("player-joined", NoId, playerId, FALSE, NoId)]>>
  ELSE <<>>

\* Mutant: the confirmation always reports the guest role.
Connected_GuestRole(sk, c, roomId, playerId, isHost) ==
  Send(sk, c, Event("connected", roomId, playerId, FALSE, NoId))

\* "Send connection confirmation": the last statement of the join handler.
Connected(sk, c, roomId, playerId, isHost) ==
  Send(sk, c, Event("connected", roomId, playerId, isHost, NoId))

\* Mutant: the catch block answers the sender with an error frame.
Relay_ErrorOnGarbage(sk, c, room, isHost, p) ==
  IF ~Parses(p) THEN Send(sk, c, ErrorEvent("Invalid message"))
  ELSE IF DataType(p) = "throws" THEN <<>>
  ELSE IF IsOpen(sk, RelayTarget(room, isHost))
  THEN <<[to |-> RelayTarget(room, isHost), msg |-> Relayed(p)]>>
  ELSE IF DataType(p) # "move"
  THEN Send(sk, c, ErrorEvent("Other player is not connected"))
  ELSE <<>>

\* The sends of the message handler for payload p from connection c, whose
\* closure holds room and isHost.
Relay(sk, c, room, isHost, p) ==
  IF ~Parses(p) \/ DataType(p) = "throws" THEN <<>>
  ELSE IF IsOpen(sk, RelayTarget(room, isHost))
  THEN <<[to |-> RelayTarget(room, isHost), msg |-> Relayed(p)]>>
  ELSE IF DataType(p) # "move"
  THEN Send(sk, c, ErrorEvent("Other player is not connected"))
  ELSE <<>>

\* "Notify the other player": the sends of the close handler, room being
\* the room after the seat was cleared.
OpponentDisconnected(sk, room, isHost) ==
  IF IsOpen(sk, RelayTarget(room, isHost))
  THEN <<[to |-> RelayTarget(room, isHost),
          msg |-> Event("opponent-disconnected", NoId, NoId, FALSE, NoId)]>>
  ELSE <<>>

\* --------------------------------------------------------------- timers
\* setTimeout returns a handle no armed timer has.
FreshHandle(pd) ==
  CHOOSE h \in 1..(Cardinality(pd) + 1) : \A t \in pd : t.handle # h

\* Mutant: the handle is dropped from the Map without clearTimeout.
clearRoomTimeout_NoClear(rt, pd, roomId) ==
  [roomTimeouts |-> [rt EXCEPT ![roomId] = NoHandle], pending |-> pd]

clearRoomTimeout(rt, pd, roomId) ==
  IF rt[roomId] # NoHandle
  THEN [roomTimeouts |-> [rt EXCEPT ![roomId] = NoHandle],
        pending |-> {t \in pd : t.handle # rt[roomId]}]
  ELSE [roomTimeouts |-> rt, pending |-> pd]

\* Mutant: a timer that is already armed for the room is left as it is.
updateRoomTimeout_KeepArmed(rm, objs, sk, rt, pd, roomId) ==
  IF rt[roomId] # NoHandle \/ rm[roomId] = NoRoom
  THEN [roomTimeouts |-> rt, pending |-> pd]
  ELSE
    LET tier == TierOf(playerCount(sk, objs[rm[roomId]]))
        h == FreshHandle(pd)
    IN [roomTimeouts |-> [rt EXCEPT ![roomId] = h],
        pending |-> pd \cup
          {[handle |-> h, roomId |-> roomId, tier |-> tier,
            left |-> TIMEOUTS[tier]]}]

\* Mutant: without the test that the room still exists; an absent room gets
\* the timer of an empty one.
updateRoomTimeout_NoAbsentTest(rm, objs, sk, rt, pd, roomId) ==
  LET c == clearRoomTimeout(rt, pd, roomId)
      tier == IF rm[roomId] = NoRoom THEN "EMPTY"
              ELSE TierOf(playerCount(sk, objs[rm[roomId]]))
      h == FreshHandle(c.pending)
  IN [roomTimeouts |-> [c.roomTimeouts EXCEPT ![roomId] = h],
      pending |-> c.pending \cup
        {[handle |-> h, roomId |-> roomId, tier |-> tier,
          left |-> TIMEOUTS[tier]]}]

updateRoomTimeout(rm, objs, sk, rt, pd, roomId) ==
  LET c == clearRoomTimeout(rt, pd, roomId) IN
  IF rm[roomId] = NoRoom THEN c
  ELSE
    LET tier == TierOf(playerCount(sk, objs[rm[roomId]]))
        h == FreshHandle(c.pending)
    IN [roomTimeouts |-> [c.roomTimeouts EXCEPT ![roomId] = h],
        pending |-> c.pending \cup
          {[handle |-> h, roomId |-> roomId, tier |-> tier,
            left |-> TIMEOUTS[tier]]}]

\* ws.close(code, reason) on every socket of cs that is OPEN.
CloseOpen(sk, cs) ==
  [c \in Conns |->
    IF c \in cs /\ sk[c].readyState = "OPEN"
    THEN [sk[c] EXCEPT !.readyState = "CLOSING"] ELSE sk[c]]

\* Mutant: the seats are closed and the handle dropped, the room is kept.
closeRoom_KeepsRoom(rm, objs, sk, rt, roomId) ==
  IF rm[roomId] = NoRoom
  THEN [sockets |-> sk, rooms |-> rm, roomTimeouts |-> rt]
  ELSE
    LET room == objs[rm[roomId]] IN
    [sockets |-> CloseOpen(sk, {room.host, room.guest} \ {NoConn}),
     rooms |-> rm,
     roomTimeouts |-> [rt EXCEPT ![roomId] = NoHandle]]

\* Mutant: the expiry of one room empties the whole registry.
closeRoom_RemovesAll(rm, objs, sk, rt, roomId) ==
  IF rm[roomId] = NoRoom
  THEN [sockets |-> sk, rooms |-> rm, roomTimeouts |-> rt]
  ELSE
    LET room == objs[rm[roomId]] IN
    [sockets |-> CloseOpen(sk, {room.host, room.guest} \ {NoConn}),
     rooms |-> [r \in RoomIds |-> NoRoom],
     roomTimeouts |-> [rt EXCEPT ![roomId] = NoHandle]]

\* Mutant: without the early return; every joined connection is closed
\* and the handle dropped whether the room is registered or not.
closeRoom_NoEarlyReturn(rm, objs, sk, rt, roomId) ==
  [sockets |-> CloseOpen(sk, {c \in Conns : sk[c].handlers}),
   rooms |-> [rm EXCEPT ![roomId] = NoRoom],
   roomTimeouts |-> [rt EXCEPT ![roomId] = NoHandle]]

\* closeRoom(roomId): the new sockets, rooms and roomTimeouts.
closeRoom(rm, objs, sk, rt, roomId) ==
  IF rm[roomId] = NoRoom
  THEN [sockets |-> sk, rooms |-> rm, roomTimeouts |-> rt]
  ELSE
    LET room == objs[rm[roomId]] IN
    [sockets |-> CloseOpen(sk, {room.host, room.guest} \ {NoConn}),
     rooms |-> [rm EXCEPT ![roomId] = NoRoom],
     roomTimeouts |-> [rt EXCEPT ![roomId] = NoHandle]]

\* Mutant: a seat counts as connected whenever it is not empty.
RoomStatus_SeatOnly(rm, objs, sk, roomId) ==
  IF rm[roomId] = NoRoom
  THEN [found |-> FALSE, hostConnected |-> FALSE, guestConnected |-> FALSE,
        playerCount |-> 0]
  ELSE
    LET room == objs[rm[roomId]]
        hostConnected == room.host # NoConn
        guestConnected == room.guest # NoConn
    IN [found |-> TRUE, hostConnected |-> hostConnected,
        guestConnected |-> guestConnected,
        playerCount |-> (IF hostConnected THEN 1 ELSE 0) +
                        (IF guestConnected THEN 1 ELSE 0)]

\* app.get('/api/room/:roomId'): the response.  found = FALSE is the 404
\* 'Room not found' reply, which carries none of the other fields.
RoomStatus(rm, objs, sk, roomId) ==
  IF rm[roomId] = NoRoom
  THEN [found |-> FALSE, hostConnected |-> FALSE, guestConnected |-> FALSE,
        playerCount |-> 0]
  ELSE
    LET room == objs[rm[roomId]]
        hostConnected == room.host # NoConn /\ IsOpen(sk, room.host)
        guestConnected == room.guest # NoConn /\ IsOpen(sk, room.guest)
    IN [found |-> TRUE, hostConnected |-> hostConnected,
        guestConnected |-> guestConnected,
        playerCount |-> (IF hostConnected THEN 1 ELSE 0) +
                        (IF guestConnected THEN 1 ELSE 0)]

\* ------------------------------------------------------ objects, history
NoSocket ==
  [readyState |-> "NONE", roomId |-> NoId, isHost |-> FALSE,
   room |-> NoRoom, handlers |-> FALSE]

\* A socket whose 'close' was emitted: nothing refers to its closure again.
ClosedSocket == [NoSocket EXCEPT !.readyState = "CLOSED"]

NoRoomObj == [host |-> NoConn, guest |-> NoConn]

\* A room object is reachable from the Map rooms or from the closure of a
\* socket that can still emit events; the others are garbage.
Reachable(rm, sk, r) ==
  \/ \E id \in RoomIds : rm[id] = r
  \/ \E c \in Conns : sk[c].handlers /\ sk[c].room = r

Collect(rm, sk, objs) ==
  [r \in Conns |-> IF Reachable(rm, sk, r) THEN objs[r] ELSE NoRoomObj]

\* A connection that holds the seat of its role in the room it captured.
Seated(sk, objs, c) ==
  /\ sk[c].handlers
  /\ SeatOf(objs[sk[c].room], sk[c].isHost) = c

\* The armed timers of a room id.
TimersOf(pd, id) == {t \in pd : t.roomId = id}

\* A join that seats a second peer in a room that has had one occupant since
\* its one-player timer was armed, before that timer is due: sk0, room0 are
\* the sockets and the room before the seat is taken, sk1, room1 after.
SecondJoin(sk0, room0, sk1, room1, pd, roomId) ==
  /\ playerCount(sk0, room0) = 1
  /\ playerCount(sk1, room1) = 2
  /\ \E t \in TimersOf(pd, roomId) : t.tier = "ONE_PLAYER" /\ t.left > 0

\* retune[roomId] after a handler re-armed the timer of roomId: cur is the
\* value before, pd and pd2 the armed timers before and after, second tells
\* a SecondJoin.  The new timer is due before the old one when its delay is
\* less than the time the old one had left.
Rearmed(cur, pd, pd2, roomId, second) ==
  IF second THEN "armed"
  ELSE IF cur = "none" \/ TimersOf(pd, roomId) = {} \/
          TimersOf(pd2, roomId) = {}
  THEN "none"
  ELSE
    LET old == CHOOSE t \in TimersOf(pd, roomId) : TRUE
        new == CHOOSE t \in TimersOf(pd2, roomId) : TRUE
    IN IF new.left < old.left \/ (cur = "early" /\ new.left = old.left)
       THEN "early" ELSE "none"

\* occBefore after a step that leaves the sockets as sk2.
History(sk2) ==
  occBefore' =
    [c \in Conns |->
      IF /\ sockets[c].readyState = "OPEN"
         /\ sk2[c].readyState # "OPEN"
         /\ Seated(sockets, roomObjs, c)
      THEN playerCount(sockets, roomObjs[sockets[c].room])
      ELSE occBefore[c]]

\* ----------------------------------------------------------------- Init
Init ==
  /\ nconn = 0
  /\ sockets = [c \in Conns |-> NoSocket]
  /\ rooms = [r \in RoomIds |-> NoRoom]
  /\ roomObjs = [c \in Conns |-> NoRoomObj]
  /\ roomTimeouts = [r \in RoomIds |-> NoHandle]
  /\ pending = {}
  /\ sent = <<>>
  /\ occBefore = [c \in Conns |-> -1]
  /\ retune = [r \in RoomIds |-> "none"]

\* -------------------------------------------------------------- actions
\* wss.on('connection'): the join handler, whole.
Connection(roomId, playerId, isHost) ==
  /\ nconn < MaxConns
  /\ LET c == nconn + 1
         sk0 == [sockets EXCEPT ![c] = [NoSocket EXCEPT !.readyState = "OPEN"]]
         rejected == [sk0 EXCEPT ![c].readyState = "CLOSING"]
     IN
     /\ nconn' = c
     /\ IF roomId = NoId \/ playerId = NoId THEN
          \* ws.close(1008, 'Missing room or player ID')
          /\ sockets' = rejected
          /\ sent' = <<>>
          /\ UNCHANGED <<rooms, roomObjs, roomTimeouts, pending, retune>>
          /\ History(rejected)
        ELSE IF RoomNotFound(rooms, roomId, isHost) THEN
          \* guest to a room that does not exist
          /\ sockets' = rejected
          /\ sent' = Send(sk0, c, ErrorEvent("Room not found"))
          /\ UNCHANGED <<rooms, roomObjs, roomTimeouts, pending, retune>>
          /\ History(rejected)
        ELSE
          LET created == rooms[roomId] = NoRoom
              rm1 == IF created THEN [rooms EXCEPT ![roomId] = c] ELSE rooms
              objs1 == IF created
                       THEN [roomObjs EXCEPT ![c] = NoRoomObj] ELSE roomObjs
              r == rm1[roomId]
          IN
          IF SeatTaken(sk0, objs1[r], isHost) THEN
            /\ sockets' = rejected
            /\ rooms' = rm1
            /\ roomObjs' = objs1
            /\ sent' = Send(sk0, c, ErrorEvent(
                         IF isHost THEN "Room already has a host"
                         ELSE "Room is full"))
            /\ UNCHANGED <<roomTimeouts, pending, retune>>
            /\ History(rejected)
          ELSE
            LET objs2 == [objs1 EXCEPT ![r] = TakeSeat(objs1[r], isHost, c)]
                sk1 == [sk0 EXCEPT ![c] =
                         [readyState |-> "OPEN", roomId |-> roomId,
                          isHost |-> isHost, room |-> r, handlers |-> TRUE]]
                tm == updateRoomTimeout(rm1, objs2, sk1, roomTimeouts,
                                        pending, roomId)
            IN /\ sockets' = sk1
               /\ rooms' = rm1
               /\ roomObjs' = Collect(rm1, sk1, objs2)
               /\ roomTimeouts' = tm.roomTimeouts
               /\ pending' = tm.pending
               /\ sent' = PlayerJoined(sk1, objs2[r], isHost, playerId) \o
                          Connected(sk1, c, roomId, playerId, isHost)
               /\ History(sk1)
               /\ retune' = [retune EXCEPT ![roomId] =
                    Rearmed(retune[roomId], pending, tm.pending, roomId,
                            SecondJoin(sk0, objs1[r], sk1, objs2[r], pending,
                                       roomId))]

\* The transport of connection c leaves OPEN (the peer starts the closing
\* handshake or the TCP socket drops); no server handler runs yet.
TransportClosing(c) ==
  /\ sockets[c].readyState = "OPEN"
  /\ LET sk1 == [sockets EXCEPT ![c].readyState = "CLOSING"] IN
     /\ sockets' = sk1
     /\ sent' = <<>>
     /\ History(sk1)
  /\ UNCHANGED <<nconn, rooms, roomObjs, roomTimeouts, pending, retune>>

\* ws.on('message'): the relay handler.  The socket still emits messages
\* while it is CLOSING after a close the server asked for.
OnMessage(c, p) ==
  /\ sockets[c].handlers
  /\ sockets[c].readyState \in {"OPEN", "CLOSING"}
  /\ sent' = Relay(sockets, c, roomObjs[sockets[c].room], sockets[c].isHost, p)
  /\ UNCHANGED <<nconn, sockets, rooms, roomObjs, roomTimeouts, pending,
                 occBefore, retune>>

\* The transport of c is gone: readyState becomes CLOSED and 'close' is
\* emitted.  ws.on('close') runs if the join registered it.
OnClose(c) ==
  /\ sockets[c].readyState \in {"OPEN", "CLOSING"}
  /\ LET sk1 == [sockets EXCEPT ![c] = ClosedSocket] IN
     IF ~sockets[c].handlers THEN
       /\ sockets' = sk1
       /\ sent' = <<>>
       /\ UNCHANGED <<rooms, roomObjs, roomTimeouts, pending, retune>>
     ELSE
       LET r == sockets[c].room
           isHost == sockets[c].isHost
           roomId == sockets[c].roomId
           room1 == ClearSeat(roomObjs[r], isHost)
           objs1 == [roomObjs EXCEPT ![r] = room1]
           tm == updateRoomTimeout(rooms, objs1, sk1, roomTimeouts, pending,
                                   roomId)
       IN /\ sockets' = sk1
          /\ roomObjs' = Collect(rooms, sk1, objs1)
          /\ roomTimeouts' = tm.roomTimeouts
          /\ pending' = tm.pending
          /\ sent' = OpponentDisconnected(sk1, room1, isHost)
          /\ retune' = [retune EXCEPT ![roomId] =
               Rearmed(retune[roomId], pending, tm.pending, roomId, FALSE)]
          /\ UNCHANGED rooms
  /\ occBefore' = [occBefore EXCEPT ![c] = -1]
  /\ UNCHANGED nconn

\* A due timer fires: its callback is closeRoom(roomId).
TimerFire(t) ==
  /\ t \in pending
  /\ t.left = 0
  /\ LET cr == closeRoom(rooms, roomObjs, sockets, roomTimeouts, t.roomId) IN
     /\ pending' = pending \ {t}
     /\ sockets' = cr.sockets
     /\ rooms' = cr.rooms
     /\ roomObjs' = Collect(cr.rooms, cr.sockets, roomObjs)
     /\ roomTimeouts' = cr.roomTimeouts
     /\ sent' = <<>>
     /\ History(cr.sockets)
     /\ retune' = [r \in RoomIds |->
                    IF cr.rooms[r] = NoRoom THEN "none" ELSE retune[r]]
  /\ UNCHANGED nconn

\* One tick of the clock passes for every armed timer; a due timer fires
\* before the clock moves on.
Tick ==
  /\ pending # {}
  /\ \A t \in pending : t.left > 0
  /\ pending' = {[t EXCEPT !.left = t.left - 1] : t \in pending}
  /\ sent' = <<>>
  /\ UNCHANGED <<nconn, sockets, rooms, roomObjs, roomTimeouts, occBefore,
                 retune>>

\* app.get('/api/room/:roomId'): the handler reads rooms and the seats'
\* readyState, replies, and writes nothing.
GetRoom(roomId) ==
  /\ RoomStatus(rooms, roomObjs, sockets, roomId).found = (rooms[roomId] # NoRoom)
  /\ UNCHANGED vars

Join == \E r \in RoomIds \cup {NoId}, p \in PlayerIds \cup {NoId},
           h \in BOOLEAN : Connection(r, p, h)
Closing == \E c \in Conns : TransportClosing(c)
Message == \E c \in Conns, p \in Payloads : OnMessage(c, p)
Close == \E c \in Conns : OnClose(c)
Fire == \E t \in pending : TimerFire(t)
Status == \E r \in RoomIds : GetRoom(r)

Next == Join \/ Closing \/ Message \/ Close \/ Fire \/ Tick \/ Status

Spec == Init /\ [][Next]_vars

\* The server is not limited to MaxConns connections over its life: once
\* the close handler of the newest connection has run and nothing refers
\* to it any more (connections.delete, seat cleared, room object garbage),
\* its name is free for the next connection.
Forget ==
  /\ nconn > 0
  /\ sockets[nconn].readyState = "CLOSED"
  /\ ~Reachable(rooms, sockets, nconn)
  /\ \A r \in Conns : nconn \notin {roomObjs[r].host, roomObjs[r].guest}
  /\ nconn' = nconn - 1
  /\ sockets' = [sockets EXCEPT ![nconn] = NoSocket]
  /\ sent' = <<>>
  /\ UNCHANGED <<rooms, roomObjs, roomTimeouts, pending, occBefore,
                 retune>>

\* A join while fewer than MaxLive connection names are in use.
JoinLive == nconn < MaxLive /\ Join

NextForget ==
  JoinLive \/ Closing \/ Message \/ Close \/ Fire \/ Tick \/ Forget

\* Time passes and due timers fire (the event loop runs setTimeout
\* callbacks); connections may come and go for ever, at most MaxLive of
\* them at a time.
FairSpec == Init /\ [][NextForget]_vars /\ WF_vars(Tick) /\ WF_vars(Fire)

\* =================================================================== claims
\* Connections that completed a join in role isHost for room id, whose close
\* event is not handled yet and whose transport is OPEN.
OpenJoined(id, isHost) ==
  {c \in Conns : /\ sockets[c].handlers
                 /\ sockets[c].readyState = "OPEN"
                 /\ sockets[c].roomId = id
                 /\ sockets[c].isHost = isHost}

\* C1 - seat exclusivity: for every room id and each role, at most one
\* connection that completed a join in that role, and whose close event is
\* not handled yet, has an OPEN transport.
C1_SeatExclusivity ==
  \A id \in RoomIds, h \in BOOLEAN : Cardinality(OpenJoined(id, h)) <= 1

\* C2 - a seated, open connection keeps its seat when the close event of
\* any other connection is handled.
C2_SeatKeptOnOtherClose ==
  [][\A c \in Conns, d \in Conns :
       (/\ OnClose(c)
        /\ d # c
        /\ Seated(sockets, roomObjs, d)
        /\ sockets[d].readyState = "OPEN")
       => Seated(sockets', roomObjs', d)]_vars

\* C3 - for a room id that is not in the registry, a guest join with both
\* ids present is refused with 'Room not found', the connection is closed
\* and no room is created; a host join succeeds, inserts the room and
\* leaves its host seat occupied by the joining connection.
C3_JoinAbsentRoom ==
  [][\A r \in RoomIds, p \in PlayerIds, h \in BOOLEAN :
       (Connection(r, p, h) /\ rooms[r] = NoRoom)
       => LET c == nconn + 1 IN
          IF h
          THEN /\ rooms'[r] # NoRoom
               /\ roomObjs'[rooms'[r]].host = c
               /\ sockets'[c].handlers
               /\ sockets'[c].readyState = "OPEN"
          ELSE /\ sent' = <<[to |-> c, msg |-> ErrorEvent("Room not found")]>>
               /\ sockets'[c].readyState = "CLOSING"
               /\ ~sockets'[c].handlers
               /\ rooms' = rooms
               /\ roomObjs' = roomObjs]_vars

\* C3 witness: a guest was just refused with 'Room not found' while another
\* room, created by a host join, has its creator in the host seat.
C3_Witness ==
  \E c \in Conns, id \in RoomIds :
    /\ sent = <<[to |-> c, msg |-> ErrorEvent("Room not found")]>>
    /\ sockets[c].readyState = "CLOSING"
    /\ rooms[id] # NoRoom
    /\ roomObjs[rooms[id]].host = rooms[id]
    /\ IsOpen(sockets, rooms[id])

\* The three refusals of a join, stated on the state before the join.
Refused(r, p, h) ==
  \/ r = NoId \/ p = NoId
  \/ ~h /\ rooms[r] = NoRoom
  \/ rooms[r] # NoRoom /\ IsOpen(sockets, SeatOf(roomObjs[rooms[r]], h))

Opposite(c) == RelayTarget(roomObjs[sockets[c].room], sockets[c].isHost)

\* C5 - relay: a parseable message from a seated connection, sent while the
\* opposite seat holds an open connection, is delivered to that connection
\* exactly once and verbatim, and nothing else is sent.
C5_RelayDelivered ==
  [][\A c \in Conns, p \in Payloads :
       (/\ OnMessage(c, p)
        /\ Parses(p)
        /\ Seated(sockets, roomObjs, c)
        /\ IsOpen(sockets, Opposite(c)))
       => sent' = <<[to |-> Opposite(c), msg |-> Relayed(p)]>>]_vars

\* C6 - peer unavailable: a parseable message from a seated, open connection
\* whose opposite seat is empty or not open yields nothing for type 'move'
\* and exactly one 'error' to the sender for anything else; no socket, room,
\* seat or timer changes.
C6_PeerUnavailable ==
  [][\A c \in Conns, p \in Payloads :
       (/\ OnMessage(c, p)
        /\ Parses(p)
        /\ Seated(sockets, roomObjs, c)
        /\ sockets[c].readyState = "OPEN"
        /\ ~IsOpen(sockets, Opposite(c)))
       => /\ sent' =
               IF DataType(p) = "move" THEN <<>>
               ELSE <<[to |-> c,
                       msg |-> ErrorEvent("Other player is not connected")]>>
          /\ UNCHANGED <<sockets, rooms, roomObjs, roomTimeouts,
                         pending>>]_vars

\* The disconnect notice the opposite seat is due when c's close is handled.
NoticeDue(c) ==
  IF IsOpen(sockets, Opposite(c))
  THEN <<[to |-> Opposite(c),
          msg |-> Event("opponent-disconnected", NoId, NoId, FALSE, NoId)]>>
  ELSE <<>>

\* Seats of room that hold c or an open connection: the occupant count with
\* the closing connection c still counted.
CountWith(sk, room, c) ==
  (IF room.host = c \/ IsOpen(sk, room.host) THEN 1 ELSE 0)
  + (IF room.guest = c \/ IsOpen(sk, room.guest) THEN 1 ELSE 0)

\* C7 as stated - when the close of a seated connection is handled, the
\* opposite seat, if open, gets exactly one 'opponent-disconnected', and the
\* occupant count of the room is one less than it was when the closing
\* connection was last open and seated.
C7_OneLessThanWhenOpen ==
  [][\A c \in Conns :
       (OnClose(c) /\ Seated(sockets, roomObjs, c))
       => LET r == sockets[c].room
              before == IF sockets[c].readyState = "OPEN"
                        THEN playerCount(sockets, roomObjs[r])
                        ELSE occBefore[c]
          IN /\ sent' = NoticeDue(c)
             /\ playerCount(sockets', roomObjs'[r]) = before - 1]_vars

\* C7 as amended - when the close of a seated connection is handled, the
\* opposite seat, if open, gets exactly one 'opponent-disconnected' (nothing
\* is sent otherwise), and the occupant count of the room is one less than
\* the count just before the handler with the closing connection counted.
C7_Disconnect ==
  [][\A c \in Conns :
       (OnClose(c) /\ Seated(sockets, roomObjs, c))
       => LET r == sockets[c].room IN
          /\ sent' = NoticeDue(c)
          /\ playerCount(sockets', roomObjs'[r])
               = CountWith(sockets, roomObjs[r], c) - 1]_vars

\* C7 witness: a guest's close was just handled; the open host, alone in
\* the room, got the notice.
C7_Witness ==
  \E d \in Conns :
    /\ sent = <<[to |-> d,
                 msg |-> Event("opponent-disconnected", NoId, NoId, FALSE,
                               NoId)]>>
    /\ Seated(sockets, roomObjs, d)
    /\ sockets[d].isHost
    /\ sockets[d].readyState = "OPEN"
    /\ roomObjs[sockets[d].room].guest = NoConn
    /\ \E c \in Conns : sockets[c] = ClosedSocket

\* Positions of the 'player-joined' events in an output.
PlayerJoinedAt(out) ==
  {i \in 1..Len(out) : out[i].msg.type = "player-joined"}

\* C8 - a guest join that succeeds while the host seat holds an open
\* connection sends that host exactly one 'player-joined' carrying the
\* guest's player id; no other join and no other handler sends one.
C8_PlayerJoined ==
  [][/\ \A r \in RoomIds \cup {NoId}, p \in PlayerIds \cup {NoId},
          h \in BOOLEAN :
          Connection(r, p, h)
          => LET c == nconn + 1
                 hostOpen == /\ r # NoId
                             /\ rooms[r] # NoRoom
                             /\ IsOpen(sockets, roomObjs[rooms[r]].host)
             IN IF ~h /\ sockets'[c].handlers /\ hostOpen
                THEN \E i \in 1..Len(sent') :
                       /\ PlayerJoinedAt(sent') = {i}
                       /\ sent'[i] =
                            [to |-> roomObjs[rooms[r]].host,
                             msg |-> Event("player-joined", NoId, p, FALSE,
                                           NoId)]
                ELSE PlayerJoinedAt(sent') = {}
     /\ nconn' = nconn => PlayerJoinedAt(sent') = {}]_vars

\* C8 witness: a guest just joined a room whose host is open; the host was
\* sent 'player-joined' with the player id the guest was acknowledged under.
C8_Witness ==
  /\ Len(sent) = 2
  /\ sent[1].msg.type = "player-joined"
  /\ sent[2].msg.type = "connected"
  /\ sent[1].msg.playerId = sent[2].msg.playerId
  /\ sent[1].msg.playerId \in PlayerIds
  /\ IsOpen(sockets, sent[1].to)
  /\ Seated(sockets, roomObjs, sent[1].to)
  /\ Seated(sockets, roomObjs, sent[2].to)
  /\ ~sockets[sent[2].to].isHost

\* C9 - a successful join sends the joining connection exactly one message,
\* the 'connected' event with its room id, player id and role, in the step
\* that seats it; 'connected' is sent by no other step and to no one else,
\* a refused join sends none, and relayed messages and notices only go to
\* connections seated by an earlier step.
C9_ConnectedAck ==
  [][/\ \A r \in RoomIds \cup {NoId}, p \in PlayerIds \cup {NoId},
          h \in BOOLEAN :
          Connection(r, p, h)
          => LET c == nconn + 1 IN
             IF sockets'[c].handlers
             THEN \E i \in 1..Len(sent') :
                    /\ {j \in 1..Len(sent') : sent'[j].to = c} = {i}
                    /\ sent'[i].msg = Event("connected", r, p, h, NoId)
             ELSE \A i \in 1..Len(sent') : sent'[i].msg.type # "connected"
     /\ \A i \in 1..Len(sent') :
          /\ sent'[i].msg.type = "connected"
             => /\ nconn' = nconn + 1
                /\ sent'[i].to = nconn'
                /\ sockets'[nconn'].handlers
          /\ sent'[i].msg.type \notin {"connected", "error"}
             => sockets[sent'[i].to].handlers]_vars

\* C9 witness: a host join was just acknowledged: the only message of the
\* step is 'connected' to the connection that now holds the host seat.
C9_Witness ==
  \E c \in Conns, r \in RoomIds, p \in PlayerIds :
    /\ sent = <<[to |-> c, msg |-> Event("connected", r, p, TRUE, NoId)]>>
    /\ rooms[r] # NoRoom
    /\ roomObjs[rooms[r]].host = c
    /\ sockets[c].readyState = "OPEN"

\* Every seat of the room is empty or holds an open connection: no change
\* of a seated transport is waiting for its close event.
Settled(room) ==
  /\ room.host # NoConn => IsOpen(sockets, room.host)
  /\ room.guest # NoConn => IsOpen(sockets, room.guest)

\* C10 - whenever no seated transport of a registered room awaits its close
\* event, the room's pending timer is the one armed with the tier of the
\* number of seats that hold an open connection.
C10_TimerTier ==
  \A id \in RoomIds :
    (rooms[id] # NoRoom /\ Settled(roomObjs[rooms[id]]))
    => /\ roomTimeouts[id] # NoHandle
       /\ \E t \in pending :
            /\ t.handle = roomTimeouts[id]
            /\ t.roomId = id
            /\ t.tier = TierOf(playerCount(sockets, roomObjs[rooms[id]]))

\* C10 witness: the guest left a two-player room; the timer of the room is
\* newly armed with the one-player tier.
C10_Witness ==
  \E id \in RoomIds, t \in pending :
    /\ rooms[id] # NoRoom
    /\ IsOpen(sockets, roomObjs[rooms[id]].host)
    /\ roomObjs[rooms[id]].guest = NoConn
    /\ Len(sent) = 1
    /\ sent[1].msg.type = "opponent-disconnected"
    /\ sent[1].to = roomObjs[rooms[id]].host
    /\ t.handle = roomTimeouts[id]
    /\ t.tier = "ONE_PLAYER"
    /\ t.left = TIMEOUT_ONE_PLAYER

\* C11 - one timer per room, no stale fire: after every step each room id
\* has at most one armed timer and it is the one roomTimeouts holds; the
\* timer that fires is the one roomTimeouts holds; and every step that
\* registers a room or changes a seat of a registered room leaves the room
\* with a newly armed timer, so no timer armed before the last join or
\* leave can remove it.
C11_OneTimerNoStaleFire ==
  [][/\ \A id \in RoomIds : Cardinality(TimersOf(pending', id)) <= 1
     /\ \A t \in pending' : t.handle = roomTimeouts'[t.roomId]
     /\ \A t \in pending : TimerFire(t) => t.handle = roomTimeouts[t.roomId]
     /\ \A id \in RoomIds :
          (/\ rooms'[id] # NoRoom
           /\ \/ rooms[id] = NoRoom
              \/ roomObjs'[rooms'[id]] # roomObjs[rooms[id]])
          => \E t \in pending' :
               /\ TimersOf(pending', id) = {t}
               /\ t.left = TIMEOUTS[t.tier]]_vars

\* C11 witness: a guest was just seated beside an open host after time had
\* passed on the one-player timer; the only armed timer of the room is the
\* new two-player timer.
C11_Witness ==
  \E id \in RoomIds, t \in pending :
    /\ rooms[id] # NoRoom
    /\ playerCount(sockets, roomObjs[rooms[id]]) = 2
    /\ Len(sent) = 2
    /\ sent[1].msg.type = "player-joined"
    /\ sent[1].to = roomObjs[rooms[id]].host
    /\ pending = {t}
    /\ t.roomId = id
    /\ t.tier = "TWO_PLAYERS"
    /\ t.left = TIMEOUT_TWO_PLAYERS
    /\ occBefore = [c \in Conns |-> -1]

\* The timer of registered room id is the two-player timer that a second
\* join armed and no later join or leave has replaced: it is due exactly
\* when TIMEOUT_TWO_PLAYERS has passed since that join, and has left k.
Retuned(id, k) ==
  /\ rooms[id] # NoRoom
  /\ retune[id] = "armed"
  /\ TimersOf(pending, id) =
       {[handle |-> roomTimeouts[id], roomId |-> id, tier |-> "TWO_PLAYERS",
         left |-> k]}

\* A step that changes who occupies room id: a join that is seated there or
\* the close handler of a connection that joined it.
OccupancyChange(id) ==
  \/ \E p \in PlayerIds, h \in BOOLEAN :
       Connection(id, p, h) /\ sockets'[nconn'].handlers
  \/ \E c \in Conns :
       OnClose(c) /\ sockets[c].handlers /\ sockets[c].roomId = id

\* C12 (as stated) - timer retuning: after a second peer joined a
\* one-occupant room at a time t before the one-player deadline, the room is
\* in the registry at every time before t + TIMEOUT_TWO_PLAYERS, whatever
\* happens after the join: it is not removed while the timer of that join
\* has time left, nor by a later timer that is due before that time; and
\* when no occupancy change follows the join it is removed at
\* t + TIMEOUT_TWO_PLAYERS.
C12_InRegistryUntilTwoPlayerDeadline ==
  [][\A id \in RoomIds :
       /\ rooms[id] # NoRoom /\ rooms'[id] = NoRoom =>
            /\ retune[id] # "early"
            /\ \A k \in 1..TIMEOUT_TWO_PLAYERS : ~Retuned(id, k)
       /\ Retuned(id, 0) =>
            /\ ~Tick
            /\ \A t \in TimersOf(pending, id) :
                 TimerFire(t) => rooms'[id] = NoRoom]_vars

\* C12 (amended) - timer retuning: the join of a second peer into a room
\* with one occupant, before the one-player deadline, leaves the room with
\* exactly one timer, the two-player timer at its full delay; while no
\* later join or leave has replaced that timer the room stays in the
\* registry at every time before t + TIMEOUT_TWO_PLAYERS, time does not pass
\* t + TIMEOUT_TWO_PLAYERS with the room registered, and the fire of that
\* timer removes the room.
C12_TimerRetuning ==
  [][\A id \in RoomIds :
       /\ (/\ rooms[id] # NoRoom
           /\ rooms'[id] = rooms[id]
           /\ SecondJoin(sockets, roomObjs[rooms[id]],
                         sockets', roomObjs'[rooms[id]], pending, id))
          => /\ TimersOf(pending', id) =
                  {[handle |-> roomTimeouts'[id], roomId |-> id,
                    tier |-> "TWO_PLAYERS", left |-> TIMEOUT_TWO_PLAYERS]}
             /\ Retuned(id, TIMEOUT_TWO_PLAYERS)'
       /\ \A k \in 1..TIMEOUT_TWO_PLAYERS :
            Retuned(id, k) =>
              /\ rooms'[id] = rooms[id]
              /\ ~OccupancyChange(id) =>
                   IF Tick THEN Retuned(id, k - 1)' ELSE Retuned(id, k)'
       /\ Retuned(id, 0) =>
            /\ ~Tick
            /\ \A t \in TimersOf(pending, id) :
                 TimerFire(t) => rooms'[id] = NoRoom]_vars

\* C12 witness: a room retuned by a second join is still registered, with
\* both seats open, when its original one-player deadline has passed.
C12_Witness ==
  \E id \in RoomIds :
    /\ \E k \in 1..(TIMEOUT_TWO_PLAYERS - TIMEOUT_ONE_PLAYER - 1) :
         Retuned(id, k)
    /\ playerCount(sockets, roomObjs[rooms[id]]) = 2

\* C13 - expiry closes everything: when a timer fires for a room that is
\* in the registry, the room leaves the registry, its timer handle is
\* discarded, and no connection that joined that room and whose close is
\* not handled yet keeps an open transport.
C13_ExpiryClosesEverything ==
  [][\A t \in pending :
       TimerFire(t) /\ rooms[t.roomId] # NoRoom =>
         /\ rooms'[t.roomId] = NoRoom
         /\ roomTimeouts'[t.roomId] = NoHandle
         /\ TimersOf(pending', t.roomId) = {}
         /\ \A c \in Conns :
              sockets[c].handlers /\ sockets[c].room = rooms[t.roomId]
              => sockets'[c].readyState # "OPEN"]_vars

\* C14 (as stated) - every room is eventually reaped: whenever a room id is
\* in the registry, a later state has it out of the registry.
C14_EveryRoomReaped ==
  \A id \in RoomIds : (rooms[id] # NoRoom) ~> (rooms[id] = NoRoom)

\* C14 (amended) - every room whose occupancy stops changing is eventually
\* reaped: if from some point on no join is seated in room id and no close
\* of a connection that joined it is handled, then whenever the id is in the
\* registry a later state has it out of the registry.
C14_QuietRoomReaped ==
  \A id \in RoomIds :
    <>[][~OccupancyChange(id)]_vars
    => ((rooms[id] # NoRoom) ~> (rooms[id] = NoRoom))

\* C14 witness: a room whose occupancy had stopped changing was reaped by
\* its timer: the id is out of the registry and has no timer, and a
\* connection that joined it is closing because the expiry closed it.
C14_Witness ==
  \E id \in RoomIds, c \in Conns :
    /\ rooms[id] = NoRoom
    /\ roomTimeouts[id] = NoHandle
    /\ sockets[c].handlers
    /\ sockets[c].roomId = id
    /\ sockets[c].readyState = "CLOSING"
    /\ TimersOf(pending, id) = {}

\* Room id is in use: both seats hold open connections and the handler that
\* ran last relayed a message from one of them to the other.
InUse(id) ==
  /\ rooms[id] # NoRoom
  /\ LET room == roomObjs[rooms[id]] IN
     /\ IsOpen(sockets, room.host)
     /\ IsOpen(sockets, room.guest)
     /\ Len(sent) = 1
     /\ sent[1].msg.kind = "relay"
     /\ sent[1].to \in {room.host, room.guest}

\* C15 - active rooms are never reaped mid-use: a room whose two seats
\* hold open connections that are exchanging relayed messages is not
\* removed from the registry and its connections are not closed by the
\* expiry handler.
C15_NotReapedMidUse ==
  [][\A id \in RoomIds :
       InUse(id) =>
         /\ rooms'[id] = rooms[id]
         /\ \A t \in pending :
              TimerFire(t) =>
                /\ IsOpen(sockets', roomObjs[rooms[id]].host)
                /\ IsOpen(sockets', roomObjs[rooms[id]].guest)]_vars

\* C16 - expiry idempotence: for a room id that is not in the registry the
\* expiry handler, run once or twice in a row, returns the sockets, the
\* registry and the timer handles it was given: it closes no connection,
\* removes no room and arms or drops no timer.
C16_ExpiryIdempotent ==
  \A id \in RoomIds :
    rooms[id] = NoRoom =>
      LET same == [sockets |-> sockets, rooms |-> rooms,
                   roomTimeouts |-> roomTimeouts]
          once == closeRoom(rooms, roomObjs, sockets, roomTimeouts, id)
          twice == closeRoom(once.rooms, roomObjs, once.sockets,
                             once.roomTimeouts, id)
      IN once = same /\ twice = same

\* C16 witness: a room id has left the registry by an expiry that closed
\* connection d, while another room is registered with an open connection
\* in a seat and its timer armed, so that there is something a second
\* expiry could close, remove or disarm.
C16_Witness ==
  \E id \in RoomIds, other \in RoomIds, c \in Conns, d \in Conns :
    /\ rooms[id] = NoRoom
    /\ sockets[d].handlers
    /\ sockets[d].roomId = id
    /\ sockets[d].readyState = "CLOSING"
    /\ rooms[other] # NoRoom
    /\ Seated(sockets, roomObjs, c)
    /\ sockets[c].room = rooms[other]
    /\ sockets[c].readyState = "OPEN"
    /\ TimersOf(pending, other) # {}

\* C17 - status query: for every room in the registry the status query
\* finds the room and reports hostConnected and guestConnected as true
\* exactly when the respective seat holds an open connection, and
\* playerCount as the number of those that are true; the query handler
\* GetRoom leaves every variable unchanged.
C17_StatusQuery ==
  \A id \in RoomIds :
    rooms[id] # NoRoom =>
      LET room == roomObjs[rooms[id]]
          res == RoomStatus(rooms, roomObjs, sockets, id)
      IN /\ res.found
         /\ res.hostConnected <=>
              (room.host # NoConn /\ sockets[room.host].readyState = "OPEN")
         /\ res.guestConnected <=>
              (room.guest # NoConn /\ sockets[room.guest].readyState = "OPEN")
         /\ res.playerCount =
              Cardinality({s \in {"host", "guest"} :
                             IF s = "host" THEN res.hostConnected
                             ELSE res.guestConnected})
         /\ res.playerCount = playerCount(sockets, room)

\* C17 witness: host and guest joined, the guest's close has just been
\* handled, and the query reports the host connected, the guest not, one
\* player.
C17_Witness ==
  \E id \in RoomIds :
    /\ rooms[id] # NoRoom
    /\ roomObjs[rooms[id]].guest = NoConn
    /\ IsOpen(sockets, roomObjs[rooms[id]].host)
    /\ Len(sent) = 1
    /\ sent[1].msg.type = "opponent-disconnected"
    /\ sent[1].to = roomObjs[rooms[id]].host
    /\ RoomStatus(rooms, roomObjs, sockets, id) =
         [found |-> TRUE, hostConnected |-> TRUE, guestConnected |-> FALSE,
          playerCount |-> 1]

\* C18 - malformed payload: the message handler, given a payload that
\* JSON.parse rejects, sends nothing to anyone and changes no socket, seat,
\* registry entry or timer; a sender that was open and seated is so after.
C18_MalformedPayload ==
  [][\A p \in {q \in Payloads : ~Parses(q)}, c \in Conns :
       OnMessage(c, p) =>
         /\ sent' = <<>>
         /\ UNCHANGED <<sockets, rooms, roomObjs, roomTimeouts, pending>>
         /\ (sockets[c].readyState = "OPEN" /\ Seated(sockets, roomObjs, c))
            => (sockets'[c].readyState = "OPEN" /\
                Seated(sockets', roomObjs', c))]_vars

\* C18 witness: both seats of a room hold open connections, the timer
\* armed by the second join has not run at all, and the handler that ran
\* last sent nothing, as after a payload that does not parse.
C18_Witness ==
  \E id \in RoomIds, t \in pending :
    /\ rooms[id] # NoRoom
    /\ playerCount(sockets, roomObjs[rooms[id]]) = 2
    /\ nconn = 2
    /\ pending = {t}
    /\ t.left = TIMEOUT_TWO_PLAYERS
    /\ sent = <<>>

\* The connections in the seats of the rooms in the registry.
SeatedConns ==
  UNION {{roomObjs[rooms[id]].host, roomObjs[rooms[id]].guest} \ {NoConn} :
         id \in {r \in RoomIds : rooms[r] # NoRoom}}

\* A step of an event handler: join, message, close or expiry.
HandlerStep ==
  \/ \E r \in RoomIds \cup {NoId}, p \in PlayerIds \cup {NoId},
        h \in BOOLEAN : Connection(r, p, h)
  \/ \E c \in Conns, p \in Payloads : OnMessage(c, p)
  \/ \E c \in Conns : OnClose(c)
  \/ \E t \in pending : TimerFire(t)

\* C19 (as stated) - seats hold only open connections: after each event
\* handler completes, every non-empty seat of every room in the registry
\* holds a connection whose transport is open, and the connection whose
\* close the handler observed is in no seat.
C19_SeatsOpenAfterHandler ==
  [][HandlerStep =>
       /\ \A c \in SeatedConns' : sockets'[c].readyState = "OPEN"
       /\ \A c \in Conns : OnClose(c) => c \notin SeatedConns']_vars

\* C19 (amended) - seats hold only connections whose close is not handled:
\* after every step, every non-empty seat of every room in the registry
\* holds a connection that completed its join and whose close event has
\* not been handled (its transport is open, or has stopped being open with
\* the close event still to come); the close handler of a connection
\* leaves it in no seat.
C19_SeatsNotClosed ==
  [][/\ \A c \in SeatedConns' :
          /\ sockets'[c].handlers
          /\ sockets'[c].readyState \in {"OPEN", "CLOSING"}
     /\ \A c \in Conns : OnClose(c) => c \notin SeatedConns']_vars

\* C19 witness: a seat of a registered room holds a connection whose
\* transport is no longer open, after a handler (the join of its peer)
\* completed.
C19_Witness ==
  \E c \in SeatedConns :
    /\ sockets[c].readyState = "CLOSING"
    /\ Len(sent) = 1
    /\ sent[1].msg.type = "connected"
    /\ sent[1].to \in SeatedConns \ {c}

\* C20 - only the expiry handler deletes rooms: a room id that is in the
\* registry keeps its room object through every step except the fire of a
\* timer of that id, which removes it; and an id that enters the registry
\* gets a room object made by that very join, never one that was
\* registered before, so that each room instance is removed at most once.
C20_OnlyExpiryDeletes ==
  [][\A id \in RoomIds :
       /\ (rooms[id] # NoRoom /\ rooms'[id] # rooms[id]) =>
            /\ rooms'[id] = NoRoom
            /\ \E t \in pending : TimerFire(t) /\ t.roomId = id
       /\ (rooms[id] = NoRoom /\ rooms'[id] # NoRoom) =>
            /\ rooms'[id] = nconn'
            /\ nconn' = nconn + 1
            /\ \E p \in PlayerIds : Connection(id, p, TRUE)]_vars

\* C20 witness: a room instance was removed by its expiry and a later host
\* join registered a new instance under the same id, while a connection
\* that joined the removed instance has its close still pending.
C20_Witness ==
  \E id \in RoomIds, c \in Conns :
    /\ rooms[id] # NoRoom
    /\ sockets[c].handlers
    /\ sockets[c].roomId = id
    /\ sockets[c].room # rooms[id]
    /\ sockets[c].readyState = "CLOSING"

\* Room id is in the registry exactly when it has a handle in roomTimeouts
\* and exactly when a timer of it is armed.
InStep(id) ==
  /\ rooms[id] # NoRoom <=> roomTimeouts[id] # NoHandle
  /\ rooms[id] # NoRoom <=> TimersOf(pending, id) # {}

\* C21 - registry and timer table stay in step: after every step a room id
\* is in the registry if and only if it has a pending expiry timer, which
\* is the handle roomTimeouts holds and removes the room when it fires; in
\* particular the close handler of a connection whose room id is absent
\* arms no timer for it.
C21_RegistryTimerInStep ==
  [][/\ \A id \in RoomIds : InStep(id)'
     /\ \A t \in pending' : t.handle = roomTimeouts'[t.roomId]
     /\ \A t \in pending :
          TimerFire(t) => rooms'[t.roomId] = NoRoom /\ InStep(t.roomId)'
     /\ \A c \in Conns :
          (/\ sockets[c].handlers
           /\ rooms[sockets[c].roomId] = NoRoom
           /\ OnClose(c))
          => /\ rooms'[sockets[c].roomId] = NoRoom
             /\ TimersOf(pending', sockets[c].roomId) = {}
             /\ roomTimeouts'[sockets[c].roomId] = NoHandle]_vars

\* C21 witness: a room with both seats taken was reaped and the close
\* events of its two connections are still to come: the id is absent and
\* has no timer, and whichever close handler runs next finds no room.
C21_Witness ==
  \E id \in RoomIds, c \in Conns, h \in Conns :
    /\ rooms[id] = NoRoom
    /\ InStep(id)
    /\ \A d \in {c, h} :
         /\ sockets[d].handlers
         /\ sockets[d].roomId = id
         /\ sockets[d].readyState = "CLOSING"
    /\ roomObjs[sockets[c].room] = [host |-> h, guest |-> c]
    /\ pending = {}

\* Connection d joined the room instance that c joined, in the other role.
Counterpart(c, d) ==
  /\ d # c
  /\ sockets[d].handlers
  /\ sockets[d].room = sockets[c].room
  /\ sockets[d].isHost # sockets[c].isHost

\* The tiers of the armed timers of room id.
TiersOf(pd, id) == {t.tier : t \in TimersOf(pd, id)}

\* C22 - room isolation: what the message or close handler of connection c
\* sends to another connection goes to one that joined the same room
\* instance in the opposite role; and the close handler of c changes no
\* seat of any other room object and leaves the occupancy tier of every
\* registered room that is not the instance c joined as it was, also when
\* that room was created later under the same room id.
C22_RoomIsolation ==
  [][\A c \in Conns :
       /\ (\E p \in Payloads : OnMessage(c, p)) =>
            /\ \A i \in 1..Len(sent') :
                 sent'[i].to # c => Counterpart(c, sent'[i].to)
            /\ UNCHANGED <<roomObjs, pending>>
       /\ (sockets[c].handlers /\ OnClose(c)) =>
            /\ \A i \in 1..Len(sent') : Counterpart(c, sent'[i].to)
            /\ \A r \in Conns \ {sockets[c].room} : roomObjs'[r] = roomObjs[r]
            /\ \A id \in RoomIds :
                 rooms[id] # NoRoom /\ rooms[id] # sockets[c].room =>
                   TiersOf(pending', id) = TiersOf(pending, id)]_vars
====
